---- MODULE Spec2Model ----
(***************************************************************************)
(* Username scan engine of app.py: fetch (one probe per site) and          *)
(* run_username_search (fan-out over the catalog with asyncio.as_completed,*)
(* progress widgets, result list).                                         *)
(*                                                                         *)
(* Strings are sequences of one-character strings.  A value that may be    *)
(* None is a sequence of length at most one: <<>> is None, <<x>> is x.     *)
(***************************************************************************)
EXTENDS Naturals, Sequences, FiniteSets

VARIABLES
    username,    \* target_username, the text typed by the user
    catalog,     \* site_data: sequence of descriptors, in dict order
    transport,   \* what the network answers for each site (environment)
    sched,       \* the environment: "free" (any order) or "serial" (one at a time)
    pc,          \* position of run_username_search
    st,          \* per fetch task: created, waiting, connected, reading, done, collected
    how,         \* per fetch task: how the coroutine ended, and at which step
    ret,         \* per fetch task: the value returned (None or a record)
    sampled,     \* per fetch task: the step at which latency was computed
    waiters,     \* connector queue: tasks waiting for a connection slot, FIFO
    doneq,       \* as_completed queue: finished tasks not yet yielded, FIFO
    results,     \* results list
    completed,   \* completed counter
    snapshots,   \* progress updates pushed to the widgets, in order
    cleared,     \* progress.empty() / status.empty() have run
    order,       \* the fetch tasks that returned a record, in the order
                 \* in which they finished
    gets,        \* per fetch task: the number of session.get calls made
    ui           \* what the page shows in the scan column

vars == <<username, catalog, transport, sched, pc, st, how, ret, sampled,
          waiters, doneq, results, completed, snapshots, cleared,
          order, gets, ui>>

-----------------------------------------------------------------------------
(* Program constants *)

MAX_CONCURRENT_REQUESTS == 20

Stride == 10

NotFoundStatus == 404

(* Bounds of the model *)

\* catalogs up to this size are scanned with responses arriving in any order
MaxFree == 2

\* larger catalogs, up to this size, are scanned against a serial transport
MaxBulk == 21

-----------------------------------------------------------------------------
(* Option values *)

None == <<>>

Some(x) == <<x>>

-----------------------------------------------------------------------------
(* str.format(username) on a URL template.  A template is a sequence of    *)
(* tokens: a one-character string is literal text, "{}" is the automatic   *)
(* replacement field, "{1}" is a field that names a second positional      *)
(* argument, which format(username) does not have (IndexError).            *)

FormatRaises(tpl) == \E i \in 1..Len(tpl) : tpl[i] = "{1}"

RECURSIVE Format(_, _)
Format(tpl, user) ==
    IF tpl = <<>> THEN <<>>
    ELSE IF Head(tpl) = "{}" THEN user \o Format(Tail(tpl), user)
    ELSE <<Head(tpl)>> \o Format(Tail(tpl), user)

\* line 43 raises: KeyError when the entry has no "url", or format fails
UrlRaises(d) == d.url = None \/ FormatRaises(d.url[1])

\* line 43: url = site_data["url"].format(username)
BuildUrl(d, user) == Format(d.url[1], user)

-----------------------------------------------------------------------------
(* str(response.url): the yarl URL of the response, rendered as text.      *)
(* yarl percent-encodes characters that are not allowed in a path; here a  *)
(* space becomes %20.                                                      *)

RECURSIVE StrURL(_)
StrURL(u) ==
    IF u = <<>> THEN <<>>
    ELSE IF Head(u) = " " THEN <<"%", "2", "0">> \o StrURL(Tail(u))
    ELSE <<Head(u)>> \o StrURL(Tail(u))

\* where a redirecting site sends the client
RedirectTarget == <<"a", "/", "l">>

\* response.url: the requested URL, or the redirect target after redirects
ResponseUrl(url, r) == IF r.redirected THEN RedirectTarget ELSE url

-----------------------------------------------------------------------------
(* Python's `sub in text` on strings: contiguous substring.                *)

\* every character of sub occurs somewhere in text
ContainsChars(sub, text) ==
    \A j \in 1..Len(sub) : \E i \in 1..Len(text) : text[i] = sub[j]

Contains(sub, text) ==
    \E i \in 0..Len(text) :
        /\ i + Len(sub) <= Len(text)
        /\ \A j \in 1..Len(sub) : text[i + j] = sub[j]

-----------------------------------------------------------------------------
(* Lines 53-60: the "Sherlock logic".  The result is "True", "False", or   *)
(* "TypeError" when errorMsg is missing (None in text raises).             *)

\* `status == 200` in place of `status != 404`
StatusIsOk(status) == status = 200

StatusExists(status) == status # NotFoundStatus

MessageExists(msg, text) == ~Contains(msg, text)

UrlExists(respUrl, url) == StrURL(respUrl) = url

Bool(b) == IF b THEN "True" ELSE "False"

\* `str(site_data.get("errorMsg")) not in text`: an absent marker is
\* looked up as the text "None"
ExistsStrMarker(d, url, r) ==
    IF d.errorType = Some("status_code") THEN Bool(StatusExists(r.status))
    ELSE IF d.errorType = Some("message") THEN
        IF d.errorMsg = None THEN "True"
        ELSE Bool(MessageExists(d.errorMsg[1], r.body))
    ELSE IF d.errorType = Some("response_url") THEN
        Bool(UrlExists(ResponseUrl(url, r), url))
    ELSE "False"

\* `exists = True` at line 53: a descriptor that no rule matches passes
ExistsByDefault(d, url, r) ==
    IF d.errorType = Some("status_code") THEN Bool(StatusExists(r.status))
    ELSE IF d.errorType = Some("message") THEN
        IF d.errorMsg = None THEN "TypeError"
        ELSE Bool(MessageExists(d.errorMsg[1], r.body))
    ELSE IF d.errorType = Some("response_url") THEN
        Bool(UrlExists(ResponseUrl(url, r), url))
    ELSE "True"

Exists(d, url, r) ==
    IF d.errorType = Some("status_code") THEN Bool(StatusExists(r.status))
    ELSE IF d.errorType = Some("message") THEN
        IF d.errorMsg = None THEN "TypeError"
        ELSE Bool(MessageExists(d.errorMsg[1], r.body))
    ELSE IF d.errorType = Some("response_url") THEN
        Bool(UrlExists(ResponseUrl(url, r), url))
    ELSE "False"

\* line 63: the record returned for an existing profile
Record(p, url) == [site |-> p, url |-> url, latency |-> "ms"]

-----------------------------------------------------------------------------
(* Inputs of a scan *)

Usernames == { <<"b">>, <<"j", " ", "d">> }

Template == <<"a", "/", "{}">>

BadTemplate == <<"a", "/", "{1}">>

Marker == <<"n", "f">>

Markers == { Marker, <<>> }

Bodies == { <<>>, <<"o", "k">>, <<"x", "n", "f">>, <<"n", "x", "f">> }

Statuses == {200, 404, 500}

ErrorTypes == {Some("status_code"), Some("message"), Some("response_url"),
               Some("other"), None}

Desc(u, e, m) == [url |-> u, errorType |-> e, errorMsg |-> m]

Descriptors ==
    {Desc(Some(Template), e, m) :
         e \in ErrorTypes, m \in {None} \cup {Some(k) : k \in Markers}}
    \cup {Desc(None, Some("status_code"), None),
          Desc(Some(BadTemplate), Some("status_code"), None)}

\* failures before the response head is received, and while the body is read
ConnectFailures == {"timeout", "refused", "tls", "malformed"}

BodyFailures == {"bodyread"}

Resp(f, s, b, r) == [fail |-> f, status |-> s, body |-> b, redirected |-> r]

Responses ==
    {Resp("none", s, b, r) : s \in Statuses, b \in Bodies, r \in BOOLEAN}
    \cup {Resp(f, 200, <<>>, FALSE) : f \in ConnectFailures \cup BodyFailures}

Site(d, r) == [desc |-> d, resp |-> r]

\* every descriptor against every response: the sites of one-site catalogs
AllSites == {Site(d, r) : d \in Descriptors, r \in Responses}

Plain == Resp("none", 200, <<"o", "k">>, FALSE)

\* the sites of the catalogs of several sites: one per way a fetch can end
MixSites ==
    { Site(Desc(Some(Template), Some("status_code"), None), Plain),
      Site(Desc(Some(Template), Some("status_code"), None),
           Resp("none", 404, <<"x", "n", "f">>, FALSE)),
      Site(Desc(Some(Template), Some("status_code"), None),
           Resp("timeout", 200, <<>>, FALSE)),
      Site(Desc(Some(Template), Some("status_code"), None),
           Resp("bodyread", 200, <<>>, FALSE)),
      Site(Desc(Some(Template), Some("message"), Some(Marker)), Plain),
      Site(Desc(Some(Template), Some("message"), None), Plain),
      Site(Desc(Some(Template), Some("response_url"), None), Plain),
      Site(Desc(Some(Template), Some("other"), None), Plain),
      Site(Desc(None, Some("status_code"), None), Plain),
      Site(Desc(Some(BadTemplate), Some("status_code"), None), Plain) }

\* the sites of the large catalogs: found, not found, timed out
BulkSites ==
    { Site(Desc(Some(Template), Some("status_code"), None), Plain),
      Site(Desc(Some(Template), Some("status_code"), None),
           Resp("none", 404, <<"x", "n", "f">>, FALSE)),
      Site(Desc(Some(Template), Some("status_code"), None),
           Resp("timeout", 200, <<>>, FALSE)) }

\* the catalogs scanned: sequences of sites
Catalogs ==
    { <<>> }
    \cup { <<s>> : s \in AllSites }
    \cup UNION { [1..n -> MixSites] : n \in 2..MaxFree }
    \cup UNION { { [p \in 1..n |-> IF p = n THEN l ELSE b] :
                       b \in BulkSites, l \in BulkSites } :
                 n \in (MaxFree + 1)..MaxBulk }

-----------------------------------------------------------------------------
(* State *)

N == Len(catalog)

Probes == 1..N

InState(s) == {p \in Probes : st[p] = s}

\* fetch executions that have started and have not finished
InFlight == InState("waiting") \cup InState("connected") \cup InState("reading")

\* fetch executions that hold a connection of the connector
Holding == InState("connected") \cup InState("reading")

AllStarted == InState("created") = {}

Min(S) == CHOOSE x \in S : \A y \in S : x <= y

\* a serial environment starts and serves the lowest-numbered task first
Turn(p, S) == sched = "serial" => p = Min(S)

\* a serial environment is slower than the loop: nothing arrives from the
\* network while a finished task waits to be collected
Idle == sched = "serial" => doneq = <<>>

\* how a coroutine ended: "record" (line 63), "none" (line 66 after the
\* rule said no), "except" (line 66 after the bare except), "raise" (an
\* exception left fetch); at: the step that raised, "-" when none did
Ending(e, a) == [end |-> e, at |-> a]

Init ==
    /\ username \in Usernames
    /\ \E c \in Catalogs :
          /\ catalog = [p \in 1..Len(c) |-> c[p].desc]
          /\ transport = [p \in 1..Len(c) |-> c[p].resp]
          /\ sched = IF Len(c) <= MaxFree THEN "free" ELSE "serial"
          /\ st = [p \in 1..Len(c) |-> "created"]
          /\ how = [p \in 1..Len(c) |-> Ending("running", "-")]
          /\ ret = [p \in 1..Len(c) |-> None]
          /\ sampled = [p \in 1..Len(c) |-> "never"]
          /\ gets = [p \in 1..Len(c) |-> 0]
    /\ pc = "start"
    /\ waiters = <<>>
    /\ doneq = <<>>
    /\ results = <<>>
    /\ completed = 0
    /\ snapshots = <<>>
    /\ cleared = FALSE
    /\ order = <<>>
    /\ ui = "idle"

-----------------------------------------------------------------------------
(* fetch *)

\* a connector built without the limit
SlotUnlimited(held, queue) == TRUE

\* TCPConnector(limit=...): a request gets a connection at once when fewer
\* than limit are in use and nobody is queued for one
SlotAvailable(held, queue) == held < MAX_CONCURRENT_REQUESTS /\ queue = <<>>

\* `except aiohttp.ClientError:` in place of the bare except
CaughtClientError(where) == where = "connect"

\* an except clause that lets asyncio.TimeoutError through
CaughtButTimeout(where) == where \notin {"url", "timeout"}

\* the try of lines 46-65 with its bare except: everything raised from
\* session.get on is caught; line 43 is above the try
Caught(where) == where # "url"

\* the coroutine ends: returns v, or raises when h.end = "raise"
Finish(p, h, v) ==
    /\ st' = [st EXCEPT ![p] = "done"]
    /\ how' = [how EXCEPT ![p] = h]
    /\ ret' = [ret EXCEPT ![p] = v]
    /\ doneq' = Append(doneq, p)
    /\ order' = IF h.end = "record" THEN Append(order, p) ELSE order
    /\ gets' = gets

\* a request that failed on the network is issued once more
ThrowRetry(p, where) ==
    IF where \in {"timeout", "connect", "body"} /\ gets[p] < 2
    THEN /\ st' = [st EXCEPT ![p] = "connected"]
         /\ gets' = [gets EXCEPT ![p] = @ + 1]
         /\ UNCHANGED <<how, ret, doneq, order>>
    ELSE IF Caught(where) THEN Finish(p, Ending("except", where), None)
    ELSE Finish(p, Ending("raise", where), None)

\* an exception is raised at `where` in fetch
Throw(p, where) ==
    IF Caught(where) THEN Finish(p, Ending("except", where), None)
    ELSE Finish(p, Ending("raise", where), None)

Remove(q, p) == SelectSeq(q, LAMBDA x : x # p)

\* lines 130-135 and 69-78: the catalog is loaded, st.info announces the
\* scan; session, task list, widgets, counters; as_completed schedules
\* every task
Begin ==
    /\ pc = "start"
    /\ pc' = "loop"
    /\ ui' = "info"
    /\ UNCHANGED <<username, catalog, transport, sched, st, how, ret, sampled,
                   waiters, doneq, results, completed, snapshots, cleared,
                   order, gets>>

\* lines 130, 148-149: pd.read_json raises; the handler reports the error
LoadFails ==
    /\ pc = "start"
    /\ pc' = "failed"
    /\ ui' = "error"
    /\ UNCHANGED <<username, catalog, transport, sched, st, how, ret, sampled,
                   waiters, doneq, results, completed, snapshots, cleared,
                   order, gets>>

\* first step of a task: lines 43-48 up to the connector
Start(p) ==
    /\ pc = "loop"
    /\ st[p] = "created"
    /\ Turn(p, InState("created"))
    /\ IF UrlRaises(catalog[p])
       THEN Throw(p, "url") /\ UNCHANGED waiters
       ELSE /\ IF SlotAvailable(Cardinality(Holding), waiters)
               THEN /\ st' = [st EXCEPT ![p] = "connected"]
                    /\ UNCHANGED waiters
               ELSE /\ st' = [st EXCEPT ![p] = "waiting"]
                    /\ waiters' = Append(waiters, p)
            /\ gets' = [gets EXCEPT ![p] = @ + 1]
            /\ UNCHANGED <<how, ret, doneq, order>>
    /\ UNCHANGED <<username, catalog, transport, sched, pc, sampled,
                   results, completed, snapshots, cleared, ui>>

\* the connector hands out connections only when all are back
AcquireWave(p) ==
    /\ pc = "loop"
    /\ AllStarted
    /\ st[p] = "waiting"
    /\ waiters # <<>>
    /\ Head(waiters) = p
    /\ Holding = {}
    /\ st' = [st EXCEPT ![p] = "connected"]
    /\ waiters' = Tail(waiters)
    /\ UNCHANGED <<username, catalog, transport, sched, pc, how, ret, sampled,
                   doneq, results, completed, snapshots, cleared,
                   order, gets, ui>>

\* a released connection goes to the first queued task
Acquire(p) ==
    /\ pc = "loop"
    /\ AllStarted
    /\ st[p] = "waiting"
    /\ waiters # <<>>
    /\ Head(waiters) = p
    /\ Cardinality(Holding) < MAX_CONCURRENT_REQUESTS
    /\ st' = [st EXCEPT ![p] = "connected"]
    /\ waiters' = Tail(waiters)
    /\ UNCHANGED <<username, catalog, transport, sched, pc, how, ret, sampled,
                   doneq, results, completed, snapshots, cleared,
                   order, gets, ui>>

\* timeout=TIMEOUT_SECONDS runs while the task is queued for a connection
PoolTimeout(p) ==
    /\ pc = "loop"
    /\ AllStarted
    /\ st[p] = "waiting"
    /\ Idle
    /\ waiters' = Remove(waiters, p)
    /\ Throw(p, "timeout")
    /\ UNCHANGED <<username, catalog, transport, sched, pc, sampled,
                   results, completed, snapshots, cleared, ui>>

\* line 48: the request fails before a response head arrives
ConnectFails(p) ==
    /\ pc = "loop"
    /\ AllStarted
    /\ st[p] = "connected"
    /\ Turn(p, Holding)
    /\ Idle
    /\ transport[p].fail \in ConnectFailures
    /\ Throw(p, IF transport[p].fail = "timeout" THEN "timeout" ELSE "connect")
    /\ UNCHANGED <<username, catalog, transport, sched, pc, sampled, waiters,
                   results, completed, snapshots, cleared, ui>>

\* lines 48-50: the response head arrives; latency and status are taken
RecvHeaders(p) ==
    /\ pc = "loop"
    /\ AllStarted
    /\ st[p] = "connected"
    /\ Turn(p, Holding)
    /\ Idle
    /\ transport[p].fail \notin ConnectFailures
    /\ st' = [st EXCEPT ![p] = "reading"]
    /\ sampled' = [sampled EXCEPT ![p] = "headers"]
    /\ UNCHANGED <<username, catalog, transport, sched, pc, how, ret, waiters,
                   doneq, results, completed, snapshots, cleared,
                   order, gets, ui>>

\* lines 51-66: the body is read, the rule applied, the coroutine returns
ReadBody(p) ==
    /\ pc = "loop"
    /\ AllStarted
    /\ st[p] = "reading"
    /\ Turn(p, Holding)
    /\ Idle
    /\ LET url == BuildUrl(catalog[p], username)
           exists == Exists(catalog[p], url, transport[p])
       IN  IF transport[p].fail \in BodyFailures THEN Throw(p, "body")
           ELSE IF exists = "TypeError" THEN Throw(p, "classify")
           ELSE IF exists = "True"
                THEN Finish(p, Ending("record", "-"), Some(Record(p, url)))
           ELSE Finish(p, Ending("none", "-"), None)
    /\ UNCHANGED <<username, catalog, transport, sched, pc, sampled, waiters,
                   results, completed, snapshots, cleared, ui>>

-----------------------------------------------------------------------------
(* run_username_search *)

\* line 81: if result: results.append(result)
Keep(v) == v # None

\* `results = [result]` in place of results.append(result)
GatherNewest(res, v) == IF v # None THEN <<v[1]>> ELSE res

\* line 81 as a function of the list and the task's result
Gather(res, v) == IF Keep(v) THEN Append(res, v[1]) ELSE res

\* line 83: if completed % 10 == 0
Report(c) == c % Stride = 0

\* the futures are awaited in the order of the task list, as gather does
YieldedInListOrder(q) == Min({q[i] : i \in 1..Len(q)})

\* line 79: as_completed yields the futures in the order they finished
Yielded(q) == Head(q)

\* completed += 1 indented under `if result:`
BumpIfKept(c, v) == IF Keep(v) THEN c + 1 ELSE c

\* line 82: completed += 1, at the level of the loop body
Bump(c, v) == c + 1

\* lines 79-85: one turn of the as_completed loop
Collect ==
    /\ pc = "loop"
    /\ AllStarted
    /\ doneq # <<>>
    /\ LET p == Yielded(doneq) IN
          /\ doneq' = Remove(doneq, p)
          /\ st' = [st EXCEPT ![p] = "collected"]
          /\ IF how[p].end = "raise"
             THEN /\ pc' = "raised"
                  /\ UNCHANGED <<results, completed, snapshots>>
             ELSE /\ pc' = pc
                  /\ results' = Gather(results, ret[p])
                  /\ completed' = Bump(completed, ret[p])
                  /\ snapshots' = IF Report(completed')
                                  THEN Append(snapshots, <<completed', N>>)
                                  ELSE snapshots
    /\ UNCHANGED <<username, catalog, transport, sched, how, ret, sampled,
                   waiters, cleared, order, gets, ui>>

\* lines 87-89: the loop has yielded len(tasks) futures
Return ==
    /\ pc = "loop"
    /\ completed = N
    /\ pc' = "returned"
    /\ cleared' = TRUE
    /\ UNCHANGED <<username, catalog, transport, sched, st, how, ret, sampled,
                   waiters, doneq, results, completed, snapshots,
                   order, gets, ui>>

\* an empty list is reported through st.error
ShownEmptyAsError(res) == IF res # <<>> THEN "success" ELSE "error"

\* lines 137-147: what the handler shows for the returned list
Shown(res) == IF res # <<>> THEN "success" ELSE "warning"

\* lines 135-149: the handler shows the outcome of the scan; an exception
\* out of run_username_search is caught by `except Exception`
Show ==
    /\ pc \in {"returned", "raised"}
    /\ ui = "info"
    /\ ui' = IF pc = "raised" THEN "error" ELSE Shown(results)
    /\ UNCHANGED <<username, catalog, transport, sched, pc, st, how, ret,
                   sampled, waiters, doneq, results, completed, snapshots,
                   cleared, order, gets>>

\* line 80: the scan is abandoned while the loop waits for the next future;
\* CancelledError leaves run_username_search and passes `except Exception`
Cancel ==
    /\ pc = "loop"
    /\ AllStarted
    /\ completed < N
    /\ pc' = "cancelled"
    /\ UNCHANGED <<username, catalog, transport, sched, st, how, ret, sampled,
                   waiters, doneq, results, completed, snapshots, cleared,
                   order, gets, ui>>

Next ==
    \/ Begin
    \/ LoadFails
    \/ Show
    \/ \E p \in Probes : Start(p)
    \/ \E p \in Probes : Acquire(p)
    \/ \E p \in Probes : PoolTimeout(p)
    \/ \E p \in Probes : ConnectFails(p)
    \/ \E p \in Probes : RecvHeaders(p)
    \/ \E p \in Probes : ReadBody(p)
    \/ Collect
    \/ Return

Spec == Init /\ [][Next]_vars

\* the event loop runs every ready task and fires every due timer
FairSpec == Spec /\ WF_vars(Next)

\* scans that the caller may abandon
CancelNext == Next \/ Cancel

CancelSpec == Init /\ [][CancelNext]_vars

-----------------------------------------------------------------------------
(* Outcomes, as the specification names them *)

Finished(p) == st[p] \in {"done", "collected"}

Found(p) == Finished(p) /\ how[p].end = "record"

\* the request and the body read both went through and the rule said no
NotFound(p) == Finished(p) /\ how[p].end = "none"

\* timeout, connection failure or body-read failure
NetworkSteps == {"timeout", "connect", "body"}

NetworkFailed(p) == Finished(p) /\ how[p].at \in NetworkSteps

\* the records of site p in the result list
RecordsOf(p) == {i \in DOMAIN results : results[i].site = p}

-----------------------------------------------------------------------------
-----------------------------------------------------------------------------
\* C2: a network failure of a probe (timeout, refused or reset connection,
\* TLS failure, malformed response, failed body read) ends that fetch with
\* None and no exception and touches no other probe; the loop turn that
\* collects it adds no record, counts it and stays in the loop.
C2_NetworkFailureSwallowed ==
    [][ \A p \in Probes :
          /\ ( /\ p \in InFlight
               /\ st'[p] = "done"
               /\ (transport[p].fail # "none" \/ st[p] = "waiting") )
             => ( /\ how'[p].end = "except"
                  /\ ret'[p] = None
                  /\ pc' = pc
                  /\ \A q \in Probes \ {p} :
                        st'[q] = st[q] /\ how'[q] = how[q] /\ ret'[q] = ret[q] )
          /\ (NetworkFailed(p) /\ st[p] = "done" /\ st'[p] = "collected")
             => ( /\ pc' = "loop"
                  /\ results' = results
                  /\ completed' = completed + 1 )
      ]_vars

\* a scan that returned with a failed probe and a found sibling
C2_Witness ==
    /\ pc = "returned"
    /\ \E p \in Probes : NetworkFailed(p) /\ how[p].at # "timeout"
    /\ \E q \in Probes : Found(q) /\ RecordsOf(q) # {}

\* C3: a descriptor whose URL cannot be built ends its fetch without an
\* exception, and the scan is not aborted by it.
C3_BadUrlSkipped ==
    /\ \A p \in Probes :
          (UrlRaises(catalog[p]) /\ Finished(p)) => how[p].end = "except"
    /\ pc # "raised"

TimedOut(p) == Finished(p) /\ how[p].at = "timeout"

\* C4: a probe that timed out is one None outcome, queued for the loop once
\* and without a record; once the loop has collected it, the scan goes on to
\* collect every other probe and returns.
C4_TimeoutDoesNotBlock ==
    /\ [](\A p \in Probes :
            TimedOut(p) =>
               /\ how[p].end = "except"
               /\ ret[p] = None
               /\ RecordsOf(p) = {}
               /\ Cardinality({i \in DOMAIN doneq : doneq[i] = p})
                    = (IF st[p] = "done" THEN 1 ELSE 0))
    /\ (\E p \in Probes : TimedOut(p) /\ st[p] = "collected")
          ~> ( /\ pc = "returned"
               /\ completed = N
               /\ \A q \in Probes : st[q] = "collected" )

\* a scan that returned with a timed-out probe and a found sibling
C4_Witness ==
    /\ pc = "returned"
    /\ \E p \in Probes : TimedOut(p)
    /\ \E q \in Probes : Found(q) /\ RecordsOf(q) # {}

\* C5: when run_username_search has returned, the result list has one
\* record per probe that ended Found and none for any other probe.
C5_ResultsAreFound ==
    pc = "returned" =>
       /\ Len(results) = Cardinality({p \in Probes : Found(p)})
       /\ \A p \in Probes :
             Cardinality(RecordsOf(p)) = (IF Found(p) THEN 1 ELSE 0)

\* a returned scan with two found probes and one that was not found
C5_Witness ==
    /\ pc = "returned"
    /\ Cardinality({p \in Probes : Found(p)}) >= 2
    /\ \E q \in Probes : NotFound(q) \/ NetworkFailed(q)

\* C6: a scan that has returned has pushed the snapshot total/total to the
\* widgets exactly once.
C6_FinalSnapshotOnce ==
    (pc = "returned" /\ N >= 1) =>
       Cardinality({i \in DOMAIN snapshots : snapshots[i] = <<N, N>>}) = 1

\* the site was asked and answered: neither line 43 nor the network failed
Answered(p) ==
    Finished(p) /\ ~UrlRaises(catalog[p]) /\ ~NetworkFailed(p)

\* C7: a status_code site that was answered is NotFound on 404 and Found on
\* any other status; a one-site catalog returns no record on 404 and one
\* record carrying the substituted URL otherwise.
C7_StatusRule ==
    /\ \A p \in Probes :
          (catalog[p].errorType = Some("status_code") /\ Answered(p)) =>
             IF transport[p].status = 404 THEN NotFound(p) ELSE Found(p)
    /\ ( /\ pc = "returned"
         /\ N = 1
         /\ catalog[1].errorType = Some("status_code")
         /\ Answered(1) ) =>
            results = IF transport[1].status = 404 THEN <<>>
                      ELSE << [site |-> 1,
                               url |-> <<"a", "/">> \o username,
                               latency |-> "ms"] >>

\* a one-site scan answered 500 returned its record
C7_Witness ==
    /\ pc = "returned"
    /\ N = 1
    /\ catalog[1].errorType = Some("status_code")
    /\ transport[1].fail = "none"
    /\ transport[1].status = 500
    /\ Len(results) = 1

\* the marker occurs in the body as a contiguous run of characters
BodyHasMarker(m, body) ==
    \E i \in 1..(Len(body) + 1) :
        /\ i + Len(m) - 1 <= Len(body)
        /\ SubSeq(body, i, i + Len(m) - 1) = m

\* C8: a message site with marker M that was answered is NotFound when the
\* body contains M and Found when it does not.
C8_MessageRule ==
    \A p \in Probes :
       ( /\ catalog[p].errorType = Some("message")
         /\ catalog[p].errorMsg # None
         /\ Answered(p) ) =>
          IF BodyHasMarker(catalog[p].errorMsg[1], transport[p].body)
          THEN NotFound(p) ELSE Found(p)

\* a body holding the marker's characters apart was taken as Found
C8_Witness ==
    \E p \in Probes :
       /\ catalog[p].errorType = Some("message")
       /\ catalog[p].errorMsg = Some(Marker)
       /\ transport[p].body = <<"n", "x", "f">>
       /\ Found(p)
       /\ RecordsOf(p) # {}

\* C9: a response_url site that was answered is NotFound when the response
\* was redirected to another URL and Found when it was not redirected.
C9_FinalUrlRule ==
    \A p \in Probes :
       (catalog[p].errorType = Some("response_url") /\ Answered(p)) =>
          IF transport[p].redirected THEN NotFound(p) ELSE Found(p)

\* C10: when the loop of run_username_search has ended, every probe has
\* been collected and completed equals the number of descriptors.
C10_LoopEndsComplete ==
    pc \in {"returned", "raised"} =>
       /\ completed = N
       /\ \A p \in Probes : st[p] = "collected"

\* line 135: the list the handler receives from run_until_complete; it
\* receives one only when run_username_search returns
Output == IF pc = "returned" THEN results ELSE <<>>

\* C11: when a scan is abandoned while it runs, no probe is started after
\* that point and every record collected before it is still in the output.
C11_CancelKeepsOutcomes ==
    pc = "cancelled" =>
       /\ \A p \in Probes : st[p] # "created"
       /\ Output = results

RECURSIVE Pos(_, _)
Pos(q, p) == IF q = <<>> THEN 0
             ELSE IF Head(q) = p THEN 1
             ELSE LET r == Pos(Tail(q), p) IN IF r = 0 THEN 0 ELSE r + 1

\* C13: the records in results stand in the order in which their tasks
\* finished, whatever the catalog order, and a record is in results only
\* after its own task has finished.
C13_CompletionOrder ==
    /\ \A i, j \in 1..Len(results) :
          i < j => /\ Pos(order, results[i].site) > 0
                   /\ Pos(order, results[i].site) < Pos(order, results[j].site)
    /\ \A i \in 1..Len(results) :
          /\ st[results[i].site] = "collected"
          /\ how[results[i].site].end = "record"

\* two records returned against the catalog order
C13_Witness ==
    /\ pc = "returned"
    /\ Len(results) = 2
    /\ results[1].site > results[2].site

\* the sites whose answer, as the transport gives it, satisfies the rule of
\* their descriptor
FoundByAnswer ==
    {p \in Probes :
        /\ ~UrlRaises(catalog[p])
        /\ transport[p].fail = "none"
        /\ Exists(catalog[p], BuildUrl(catalog[p], username), transport[p])
              = "True"}

\* C14: the set of sites a scan returns depends only on the username, the
\* catalog and the answers of the transport, not on the order in which the
\* tasks ran, so two scans of the same input return the same set.
C14_SameFoundSet ==
    pc = "returned" =>
       {results[i].site : i \in 1..Len(results)} = FoundByAnswer

\* a message descriptor without errorMsg
LacksMarker(d) == d.errorType = Some("message") /\ d.errorMsg = None

\* C15: a message descriptor without errorMsg is never found and adds no
\* record; when its request was answered and the body read, the lookup of
\* the absent marker fails inside the try and the fetch returns None, so
\* nothing is raised into the loop.
C15_MissingMarkerSkipped ==
    \A p \in Probes :
       LacksMarker(catalog[p]) =>
          /\ ~Found(p)
          /\ RecordsOf(p) = {}
          /\ ret[p] = None
          /\ (Finished(p) /\ ~UrlRaises(catalog[p])) =>
                how[p].end = "except"
          /\ (Finished(p) /\ ~UrlRaises(catalog[p])
                /\ transport[p].fail = "none") =>
                how[p] = Ending("except", "classify")

\* a scan that returned although one of its sites has no marker and was
\* answered, and with the record of another site
C15_Witness ==
    /\ pc = "returned"
    /\ results # <<>>
    /\ \E p \in Probes :
          /\ LacksMarker(catalog[p])
          /\ st[p] = "collected"
          /\ how[p] = Ending("except", "classify")

\* how often x occurs in the sequence q
Occurrences(q, x) == Cardinality({i \in DOMAIN q : q[i] = x})

\* C16: every fetch issues at most one request, and exactly one once it is
\* past the url of line 43; it finishes once, is handed to the loop once
\* and puts at most one record into results; a scan that returns has
\* requested and collected every site of the catalog exactly once.
C16_ProbedExactlyOnce ==
    /\ \A p \in Probes :
          /\ gets[p] <= 1
          /\ (st[p] # "created" /\ ~UrlRaises(catalog[p])) => gets[p] = 1
          /\ Occurrences(order, p) = IF Found(p) THEN 1 ELSE 0
          /\ Occurrences(doneq, p) = IF st[p] = "done" THEN 1 ELSE 0
          /\ Cardinality(RecordsOf(p)) <= 1
    /\ pc = "returned" =>
          /\ completed = N
          /\ \A p \in Probes : gets[p] = 1 /\ st[p] = "collected"

\* a returned scan with a record and a site whose only request failed
C16_Witness ==
    /\ pc = "returned"
    /\ results # <<>>
    /\ \E p \in Probes : NetworkFailed(p) /\ gets[p] = 1

\* the fetches whose return value the loop has received
Received == {p \in Probes : st[p] = "collected" /\ how[p].end # "raise"}

\* C17: completed is the number of fetches whose return value the loop has
\* received, whatever they returned; every progress snapshot is
\* <<completed, total>> with 1 <= completed <= total = Len(catalog), and
\* the completed counts of successive snapshots strictly increase.
C17_ProgressExact ==
    /\ completed = Cardinality(Received)
    /\ \A i \in 1..Len(snapshots) :
          /\ snapshots[i][2] = N
          /\ 1 <= snapshots[i][1]
          /\ snapshots[i][1] <= snapshots[i][2]
          /\ snapshots[i][1] <= completed
    /\ \A i, j \in 1..Len(snapshots) :
          i < j => snapshots[i][1] < snapshots[j][1]

\* two snapshots have been shown and fetches that returned None were
\* counted
C17_Witness ==
    /\ Len(snapshots) = 2
    /\ completed > Len(results)
    /\ \E p \in Probes : NetworkFailed(p) /\ st[p] = "collected"

\* C18: a scan that returned an empty list is shown as "No profiles found"
\* (a warning, never the error display) with the list empty and nothing
\* raised; a catalog that failed to load is shown as an error, and in that
\* state no fetch has started and no request was made.
C18_EmptyIsNotFailure ==
    /\ (pc = "returned" /\ results = <<>> /\ ui # "info") =>
          /\ ui = "warning"
          /\ \A p \in Probes : how[p].end # "raise"
    /\ ui = "warning" => (pc = "returned" /\ results = <<>> /\ completed = N)
    /\ pc = "failed" =>
          /\ ui = "error"
          /\ \A p \in Probes : st[p] = "created" /\ gets[p] = 0
          /\ results = <<>> /\ completed = 0

\* a scan of several sites, none found, has been shown
C18_Witness ==
    /\ ui = "warning"
    /\ N >= 2
    /\ \E p \in Probes : NotFound(p)

\* C19: the latency of a fetch is sampled only after its body has been
\* read, so it covers the time from the start of the request to the end
\* of the body read.
C19_LatencyAfterBody ==
    \A p \in Probes : sampled[p] # "never" => Finished(p)

\* the rules fetch knows (lines 55-60)
KnownRules == {Some("status_code"), Some("message"), Some("response_url")}

\* C20: a site whose errorType is absent or none of the three rules is
\* never found and adds no record; when its request was answered and the
\* body read its fetch returns None by line 66, without an exception, and
\* the loop goes on.
C20_UnknownRuleNotFound ==
    \A p \in Probes :
       catalog[p].errorType \notin KnownRules =>
          /\ ~Found(p)
          /\ RecordsOf(p) = {}
          /\ ret[p] = None
          /\ (Finished(p) /\ ~UrlRaises(catalog[p])
                /\ transport[p].fail = "none") =>
                how[p] = Ending("none", "-")
          /\ (st[p] = "collected" /\ ~UrlRaises(catalog[p])) =>
                pc \in {"loop", "returned"}

\* a site without a known rule answered 200 and the scan returned with the
\* record of another site only
C20_Witness ==
    /\ pc = "returned"
    /\ results # <<>>
    /\ \E p \in Probes :
          /\ catalog[p].errorType \notin KnownRules
          /\ transport[p].status = 200
          /\ how[p] = Ending("none", "-")

====
